---------------------------- MODULE Spec2Model ----------------------------
(***************************************************************************)
(* Model of paasta_tools/docker_wrapper.py: the wrapper that rewrites the  *)
(* argument vector meant for docker (hostname flag, NUMA pinning flags).   *)
(*                                                                         *)
(* A string is a sequence of one-character strings, so that the scanning,  *)
(* partitioning and substitution the code does are computed, not assumed.  *)
(* A character is a code point below 256.  A CPU quantity is a float, an   *)
(* IEEE-754 double s * m * 2^e with m an odd natural kept as limbs, an     *)
(* infinity or a NaN: float() rounds the decimal it reads to the nearest   *)
(* double (ties to even, subnormals, overflow to infinity) and every sum   *)
(* is rounded the same way, in the order sum() adds.  A bin of the ledger  *)
(* is a dict in insertion order: a sequence of <<pid, weight>> items.      *)
(***************************************************************************)
EXTENDS Integers, Sequences, FiniteSets, TLC

(***************************************************************************)
(* Characters                                                              *)
(***************************************************************************)
Lower == {"a","b","c","d","e","f","g","h","i","j","k","l","m",
          "n","o","p","q","r","s","t","u","v","w","x","y","z"}

Upper == {"A","B","C","D","E","F","G","H","I","J","K","L","M",
          "N","O","P","Q","R","S","T","U","V","W","X","Y","Z"}

Digits == {"0","1","2","3","4","5","6","7","8","9"}

\* A character is a code point below 256.  Those from 128 on that the \w of a
\* str pattern accepts (the letters and the numerics of Latin-1):
Latin1Word ==
  {"ª","²","³","µ","¹","º","¼","½","¾","À","Á","Â","Ã","Ä","Å","Æ",
   "Ç","È","É","Ê","Ë","Ì","Í","Î","Ï","Ð","Ñ","Ò","Ó","Ô","Õ","Ö",
   "Ø","Ù","Ú","Û","Ü","Ý","Þ","ß","à","á","â","ã","ä","å","æ","ç",
   "è","é","ê","ë","ì","í","î","ï","ð","ñ","ò","ó","ô","õ","ö","ø",
   "ù","ú","û","ü","ý","þ","ÿ"}

\* \w of the regular expressions (str patterns are Unicode-aware)
IsWord(c) == c \in Lower \cup Upper \cup Digits \cup {"_"} \cup Latin1Word

\* \s of the regular expressions, also the whitespace float() strips: 9 to 13,
\* 28 to 31, 32, 133 and 160
WhiteSpace == {"\t", "\n", "", "\f", "\r", "", "", "", "", " ", "", " "}

IsSpace(c) == c \in WhiteSpace

\* [a-zA-Z0-9-], the characters re.sub keeps in generate_hostname
IsHostChar(c) == c \in Lower \cup Upper \cup Digits \cup {"-"}

(***************************************************************************)
(* String helpers (str.partition, str.rpartition, str.startswith, in)      *)
(***************************************************************************)
Contains(s, c) == \E k \in 1..Len(s) : s[k] = c

\* index of the first c in s, 0 when there is none
IndexOf(s, c) ==
  IF Contains(s, c) THEN CHOOSE k \in 1..Len(s) : s[k] = c /\ \A j \in 1..(k-1) : s[j] # c
  ELSE 0

\* index of the last c in s, 0 when there is none
LastIndexOf(s, c) ==
  IF Contains(s, c) THEN CHOOSE k \in 1..Len(s) : s[k] = c /\ \A j \in (k+1)..Len(s) : s[j] # c
  ELSE 0

\* s.partition(c)[0]
PartHead(s, c) == IF Contains(s, c) THEN SubSeq(s, 1, IndexOf(s, c) - 1) ELSE s

\* s.partition(c)[2]
PartTail(s, c) == IF Contains(s, c) THEN SubSeq(s, IndexOf(s, c) + 1, Len(s)) ELSE << >>

\* s.rpartition(c)[2]
RPartTail(s, c) == IF Contains(s, c) THEN SubSeq(s, LastIndexOf(s, c) + 1, Len(s)) ELSE s

StartsWith(s, p) == Len(s) >= Len(p) /\ SubSeq(s, 1, Len(p)) = p

\* s[:n]
Take(s, n) == IF Len(s) <= n THEN s ELSE SubSeq(s, 1, n)

(***************************************************************************)
(* Literals of the source                                                  *)
(***************************************************************************)
RunTok == <<"r","u","n">>

DashH == <<"-","h">>

LongHostname == <<"-","-","h","o","s","t","n","a","m","e">>

LongEnv == <<"-","-","e","n","v">>

HostnameEq == LongHostname \o <<"=">>

CpusetCpusEq == <<"-","-","c","p","u","s","e","t","-","c","p","u","s","=">>

CpusetMemsEq == <<" ","-","-","c","p","u","s","e","t","-","m","e","m","s","=">>

KeyTaskUpper == <<"M","E","S","O","S","_","T","A","S","K","_","I","D">>

KeyTaskLower == <<"m","e","s","o","s","_","t","a","s","k","_","i","d">>

KeyCpus == <<"M","A","R","A","T","H","O","N","_","A","P","P","_",
             "R","E","S","O","U","R","C","E","_","C","P","U","S">>

DefaultCpus == <<"1","0">>

KeyPin == <<"P","I","N","_","T","O","_","N","U","M","A","_","N","O","D","E">>

MAX_HOSTNAME_LENGTH == 63

numa_zones == 2

\* the None that pick_best_numa_zone returns
NoneZone == -1

(***************************************************************************)
(* parse_env_args                                                          *)
(***************************************************************************)
\* `$` also matches before one trailing newline
StripNL(s) == IF Len(s) > 0 /\ s[Len(s)] = "\n" THEN SubSeq(s, 1, Len(s) - 1) ELSE s

\* group 1 of ENV_MATCH_RE: -\w*e\w* or --env
EnvFlagName(p) ==
  \/ p = LongEnv
  \/ /\ Len(p) >= 2
     /\ p[1] = "-"
     /\ \A k \in 2..Len(p) : IsWord(p[k])
     /\ \E k \in 2..Len(p) : p[k] = "e"

\* group 3 of ENV_MATCH_RE: \S.* up to the end (or to one trailing newline)
EnvInline(v) ==
  /\ Len(v) >= 1
  /\ ~IsSpace(v[1])
  /\ ~Contains(StripNL(v), "\n")

\* ENV_MATCH_RE.match(arg): whether it matches, and group(3) or ''
EnvMatch(arg) ==
  IF Contains(arg, "=")
  THEN IF EnvFlagName(PartHead(arg, "=")) /\ EnvInline(PartTail(arg, "="))
       THEN [matched |-> TRUE, value |-> StripNL(PartTail(arg, "="))]
       ELSE [matched |-> FALSE, value |-> << >>]
  ELSE [matched |-> EnvFlagName(StripNL(arg)), value |-> << >>]

\* result[k] = v
DictPut(d, k, v) == [x \in DOMAIN d \cup {k} |-> IF x = k THEN v ELSE d[x]]

EmptyDict == [x \in {} |-> << >>]

\* a key once recorded is kept
EnvStep_FirstWins(st, arg) ==
  LET m == EnvMatch(arg)
      val == IF st.in_env THEN arg ELSE m.value
  IN  IF ~st.in_env /\ ~m.matched THEN st
      ELSE IF ~st.in_env /\ m.value = << >> THEN [st EXCEPT !.in_env = TRUE]
      ELSE IF ~Contains(val, "=") \/ PartHead(val, "=") \in DOMAIN st.result
           THEN [st EXCEPT !.in_env = FALSE]
      ELSE [result |-> DictPut(st.result, PartHead(val, "="), PartTail(val, "=")),
            in_env |-> FALSE]

\* one iteration of the loop of parse_env_args on state st = [result, in_env]
EnvStep(st, arg) ==
  LET m == EnvMatch(arg)
      val == IF st.in_env THEN arg ELSE m.value
  IN  IF ~st.in_env /\ ~m.matched THEN st
      ELSE IF ~st.in_env /\ m.value = << >> THEN [st EXCEPT !.in_env = TRUE]
      ELSE IF ~Contains(val, "=") THEN [st EXCEPT !.in_env = FALSE]
      ELSE [result |-> DictPut(st.result, PartHead(val, "="), PartTail(val, "=")),
            in_env |-> FALSE]

RECURSIVE EnvFold(_, _)
EnvFold(st, args) ==
  IF args = << >> THEN st ELSE EnvFold(EnvStep(st, Head(args)), Tail(args))

parse_env_args(args) == EnvFold([result |-> EmptyDict, in_env |-> FALSE], args).result

\* env_args.get(k, default)
DictGet(d, k, default) == IF k \in DOMAIN d THEN d[k] ELSE default

\* env_args.get('MESOS_TASK_ID') or env_args.get('mesos_task_id'); None is the
\* empty string here, both are falsy and the value is only tested and partitioned
TaskIdOf(env) ==
  IF DictGet(env, KeyTaskUpper, << >>) # << >> THEN env[KeyTaskUpper]
  ELSE DictGet(env, KeyTaskLower, << >>)

(***************************************************************************)
(* already_has_hostname                                                    *)
(***************************************************************************)
HostnameArg(arg) ==
  \/ arg = DashH
  \/ StartsWith(arg, LongHostname)
  \/ /\ Len(arg) > 1
     /\ arg[1] = "-"
     /\ arg[2] # "-"
     /\ Contains(PartHead(arg, "="), "h")

\* already_has_hostname without the short-option cluster test of lines 60-64
already_has_hostname_NoCluster(args) ==
  \E k \in 1..Len(args) : args[k] = DashH \/ StartsWith(args[k], LongHostname)

already_has_hostname(args) == \E k \in 1..Len(args) : HostnameArg(args[k])

(***************************************************************************)
(* generate_hostname                                                       *)
(***************************************************************************)
\* every character outside the class replaced, one for one
SubNonHost_EachChar(s) == [k \in 1..Len(s) |-> IF IsHostChar(s[k]) THEN s[k] ELSE "-"]

\* re.sub('[^a-zA-Z0-9-]+', '-', s): the leftmost match of the class, extended
\* as far as it goes, is replaced, and the substitution goes on after it
RECURSIVE SubNonHost(_)
SubNonHost(s) ==
  LET out == {k \in 1..Len(s) : ~IsHostChar(s[k])}
  IN  IF out = {} THEN s
      ELSE LET start == CHOOSE k \in out : \A j \in out : k <= j
               rest == {k \in (start + 1)..Len(s) : IsHostChar(s[k])}
               stop == IF rest = {} THEN Len(s) + 1
                       ELSE CHOOSE k \in rest : \A j \in rest : k <= j
           IN  SubSeq(s, 1, start - 1) \o <<"-">> \o SubNonHost(SubSeq(s, stop, Len(s)))

generate_hostname(fqdn, mesos_task_id) ==
  LET host_hostname == PartHead(fqdn, ".")
      task_id == RPartTail(mesos_task_id, ".")
  IN  Take(SubNonHost(host_hostname \o <<"-">> \o task_id), MAX_HOSTNAME_LENGTH)

(***************************************************************************)
(* add_argument                                                            *)
(***************************************************************************)
\* add_argument that inserts before the run token (args.insert(run_index, ..))
add_argument_BeforeRun(args, argument) ==
  LET run_index == IndexOf(args, RunTok)
  IN  IF run_index = 0 THEN args
      ELSE SubSeq(args, 1, run_index - 1) \o <<argument>> \o SubSeq(args, run_index, Len(args))

add_argument(args, argument) ==
  LET run_index == IndexOf(args, RunTok)
  IN  IF run_index = 0 THEN args
      ELSE SubSeq(args, 1, run_index) \o <<argument>> \o SubSeq(args, run_index + 1, Len(args))

(***************************************************************************)
(* Numbers as text: str(int) and float(str)                                *)
(***************************************************************************)
DigitChar(d) ==
  CASE d = 0 -> "0" [] d = 1 -> "1" [] d = 2 -> "2" [] d = 3 -> "3" [] d = 4 -> "4"
    [] d = 5 -> "5" [] d = 6 -> "6" [] d = 7 -> "7" [] d = 8 -> "8" [] d = 9 -> "9"

DigitVal(c) ==
  CASE c = "0" -> 0 [] c = "1" -> 1 [] c = "2" -> 2 [] c = "3" -> 3 [] c = "4" -> 4
    [] c = "5" -> 5 [] c = "6" -> 6 [] c = "7" -> 7 [] c = "8" -> 8 [] c = "9" -> 9

\* str(n) for n >= 0
RECURSIVE StrOf(_)
StrOf(n) == IF n < 10 THEN <<DigitChar(n)>> ELSE StrOf(n \div 10) \o <<DigitChar(n % 10)>>

\* ','.join(str(c) for c in core_list)
RECURSIVE JoinCores(_)
JoinCores(core_list) ==
  IF core_list = << >> THEN << >>
  ELSE IF Len(core_list) = 1 THEN StrOf(core_list[1])
  ELSE StrOf(Head(core_list)) \o <<",">> \o JoinCores(Tail(core_list))

RECURSIVE DecimalVal(_)
DecimalVal(s) ==
  IF s = << >> THEN 0 ELSE 10 * DecimalVal(SubSeq(s, 1, Len(s) - 1)) + DigitVal(s[Len(s)])

(***************************************************************************)
(* Naturals of any size: the sequence of the digits in base 2^15, the      *)
(* least significant first and the most significant not 0 (so 0 is << >>)  *)
(***************************************************************************)
LimbBits == 15

LimbBase == 32768

\* 2^n for n in 0..LimbBits
Pow2(n) == <<1, 2, 4, 8, 16, 32, 64, 128, 256, 512, 1024, 2048, 4096, 8192, 16384, 32768>>[n + 1]

MaxInt(a, b) == IF a >= b THEN a ELSE b

Limb(a, i) == IF i \in 1..Len(a) THEN a[i] ELSE 0

Trim(a) ==
  IF \A i \in 1..Len(a) : a[i] = 0 THEN << >>
  ELSE SubSeq(a, 1, CHOOSE i \in 1..Len(a) : a[i] # 0 /\ \A j \in (i+1)..Len(a) : a[j] = 0)

\* the natural of an int n, 0 <= n < 2^31
BigOfInt(n) ==
  Trim(<<n % LimbBase, (n \div LimbBase) % LimbBase, n \div (LimbBase * LimbBase)>>)

BigLt(a, b) ==
  \/ Len(a) < Len(b)
  \/ /\ Len(a) = Len(b)
     /\ \E i \in 1..Len(a) : a[i] < b[i] /\ \A j \in (i+1)..Len(a) : a[j] = b[j]

\* a + b: the carry into a digit comes from the nearest digit below whose sum is
\* not LimbBase - 1
BigAdd(a, b) ==
  IF a = << >> THEN b ELSE IF b = << >> THEN a ELSE
  LET n == MaxInt(Len(a), Len(b)) + 1
      s == [i \in 1..n |-> Limb(a, i) + Limb(b, i)]
      carry(i) == \E j \in 1..(i-1) :
                    s[j] >= LimbBase /\ \A k \in (j+1)..(i-1) : s[k] = LimbBase - 1
  IN  Trim([i \in 1..n |-> (s[i] + (IF carry(i) THEN 1 ELSE 0)) % LimbBase])

\* a - b, for a >= b
BigSub(a, b) ==
  IF b = << >> THEN a ELSE
  LET d == [i \in 1..Len(a) |-> a[i] - Limb(b, i)]
      borrow(i) == \E j \in 1..(i-1) : d[j] < 0 /\ \A k \in (j+1)..(i-1) : d[k] = 0
  IN  Trim([i \in 1..Len(a) |->
              (d[i] - (IF borrow(i) THEN 1 ELSE 0) + LimbBase) % LimbBase])

\* a * 2^s
ShiftLeft(a, s) ==
  IF a = << >> \/ s = 0 THEN a ELSE
  LET q == s \div LimbBits
      P == Pow2(s % LimbBits)
      Q == Pow2(LimbBits - (s % LimbBits))
  IN  Trim([i \in 1..(Len(a) + q + 1) |->
              (Limb(a, i - q) % Q) * P + Limb(a, i - q - 1) \div Q])

\* a \div 2^s
ShiftRight(a, s) ==
  IF a = << >> \/ s = 0 THEN a ELSE
  LET q == s \div LimbBits
      P == Pow2(s % LimbBits)
      Q == Pow2(LimbBits - (s % LimbBits))
  IN  Trim([i \in 1..(Len(a) - q) |->
              Limb(a, i + q) \div P + (Limb(a, i + q + 1) % P) * Q])

\* the number of binary digits of a
BitLen(a) ==
  IF a = << >> THEN 0
  ELSE LimbBits * (Len(a) - 1)
         + CHOOSE n \in 1..LimbBits : a[Len(a)] < Pow2(n) /\ Pow2(n - 1) <= a[Len(a)]

\* the binary digit of weight 2^p of a
TestBit(a, p) == (Limb(a, p \div LimbBits + 1) \div Pow2(p % LimbBits)) % 2 = 1

\* a % 2^d # 0
AnyLow(a, d) ==
  \/ \E i \in 1..(d \div LimbBits) : Limb(a, i) # 0
  \/ Limb(a, d \div LimbBits + 1) % Pow2(d % LimbBits) # 0

\* the number of binary zeros a # 0 ends with
TrailingZeros(a) ==
  LET i == CHOOSE i \in 1..Len(a) : a[i] # 0 /\ \A j \in 1..(i-1) : a[j] = 0
  IN  LimbBits * (i - 1)
        + CHOOSE t \in 0..(LimbBits - 1) : a[i] % Pow2(t + 1) # 0 /\ a[i] % Pow2(t) = 0

\* a * c for one digit c
MulSmall(a, c) ==
  IF a = << >> \/ c = 0 THEN << >> ELSE
  BigAdd(Trim([i \in 1..Len(a) |-> (a[i] * c) % LimbBase]),
         Trim([i \in 1..(Len(a) + 1) |-> IF i = 1 THEN 0 ELSE (a[i - 1] * c) \div LimbBase]))

\* a * (the digits lo..hi of b, in place)
RECURSIVE MulRange(_, _, _, _)
MulRange(a, b, lo, hi) ==
  IF lo > hi THEN << >>
  ELSE IF lo = hi THEN ShiftLeft(MulSmall(a, b[lo]), LimbBits * (lo - 1))
  ELSE LET mid == (lo + hi) \div 2
       IN  BigAdd(MulRange(a, b, lo, mid), MulRange(a, b, mid + 1, hi))

BigMul(a, b) == IF a = << >> \/ b = << >> THEN << >> ELSE MulRange(a, b, 1, Len(b))

RECURSIVE Pow5(_)
Pow5(n) ==
  IF n = 0 THEN <<1>>
  ELSE IF n <= 6 THEN <<5 * Pow5(n - 1)[1]>>
  ELSE BigMul(Pow5(n \div 2), Pow5(n - n \div 2))

\* the digits i down to 0 of R \div D, and R % D, for R < D * LimbBase^(i + 1) and
\* LimbBase <= 2 * (the first digit of D): a digit is the quotient of the first
\* two digits of what is left by the first one of D, or up to 2 less
RECURSIVE DivLimb(_, _, _)
DivLimb(R, D, i) ==
  IF i < 0 THEN [q |-> << >>, r |-> R]
  ELSE LET n == Len(D)
           guess == (Limb(R, n + i + 1) * LimbBase + Limb(R, n + i)) \div D[n]
           top == IF guess < LimbBase THEN guess ELSE LimbBase - 1
           digit(Di) == CHOOSE c \in (top - 2)..top :
                          c >= 0 /\ ~BigLt(R, MulSmall(Di, c)) /\ BigLt(R, MulSmall(Di, c + 1))
           put(rest, c) == [q |-> Append(rest.q, c), r |-> rest.r]
           step(Di, c) == put(DivLimb(BigSub(R, MulSmall(Di, c)), D, i - 1), c)
           at(Di) == step(Di, digit(Di))
       IN  at(ShiftLeft(D, LimbBits * i))

(***************************************************************************)
(* Floats, the doubles of IEEE 754: [k, s, m, e] is s * m * 2^e when       *)
(* k = "fin" (s the sign 1 or -1, m an odd natural or 0 with e = 0, so     *)
(* that equal values other than the zeros are equal records), the infinity *)
(* of sign s when k = "inf", a NaN when k = "nan"                          *)
(***************************************************************************)
NaN == [k |-> "nan", s |-> 1, m |-> << >>, e |-> 0]

Inf(sign) == [k |-> "inf", s |-> sign, m |-> << >>, e |-> 0]

Zero(sign) == [k |-> "fin", s |-> sign, m |-> << >>, e |-> 0]

IsZero(a) == a.k = "fin" /\ a.m = << >>

\* the double nearest to sign * N * 2^e, ties to the even one: 53 binary digits,
\* the last of weight 2^-1074 at least, an infinity from 2^1024 on
RoundToDouble(sign, N, e) ==
  LET odd(M, x, z) == [k |-> "fin", s |-> sign, m |-> ShiftRight(M, z), e |-> x + z]
      ranged(M, x) == IF M = << >> THEN Zero(sign)
                      ELSE IF x + BitLen(M) > 1024 THEN Inf(sign)
                      ELSE odd(M, x, TrailingZeros(M))
      rounded(kept, d) ==
        IF TestBit(N, d - 1) /\ (AnyLow(N, d - 1) \/ TestBit(kept, 0))
        THEN BigAdd(kept, <<1>>) ELSE kept
      cut(q) == IF q <= e THEN ranged(N, e)
                ELSE ranged(rounded(ShiftRight(N, q - e), q - e), q)
  IN  cut(MaxInt(e + BitLen(N) - 53, 0 - 1074))

\* the float of an int
Num(n) == IF n < 0 THEN RoundToDouble(0 - 1, BigOfInt(0 - n), 0)
          ELSE RoundToDouble(1, BigOfInt(n), 0)

\* a + b
FloatAdd(a, b) ==
  IF a.k = "nan" \/ b.k = "nan" THEN NaN
  ELSE IF a.k = "inf" THEN (IF b.k = "inf" /\ b.s # a.s THEN NaN ELSE a)
  ELSE IF b.k = "inf" THEN b
  ELSE IF IsZero(a) /\ IsZero(b) THEN Zero(IF a.s < 0 /\ b.s < 0 THEN 0 - 1 ELSE 1)
  ELSE IF IsZero(a) THEN b
  ELSE IF IsZero(b) THEN a
  ELSE LET e == IF a.e <= b.e THEN a.e ELSE b.e
           sum(A, C) ==
             IF a.s # b.s /\ A = C THEN Zero(1)
             ELSE RoundToDouble(IF a.s = b.s \/ BigLt(C, A) THEN a.s ELSE b.s,
                                IF a.s = b.s THEN BigAdd(A, C)
                                ELSE IF BigLt(A, C) THEN BigSub(C, A) ELSE BigSub(A, C),
                                e)
       IN  sum(ShiftLeft(a.m, a.e - e), ShiftLeft(b.m, b.e - e))

\* a == b
FloatEq(a, b) == a.k # "nan" /\ b.k # "nan" /\ (a = b \/ (IsZero(a) /\ IsZero(b)))

\* a > b
FloatGt(a, b) ==
  IF a.k = "nan" \/ b.k = "nan" THEN FALSE
  ELSE IF a.k = "inf" THEN a.s > 0 /\ ~(b.k = "inf" /\ b.s > 0)
  ELSE IF b.k = "inf" THEN b.s < 0
  ELSE IF IsZero(a) THEN ~IsZero(b) /\ b.s < 0
  ELSE IF IsZero(b) THEN a.s > 0
  ELSE IF a.s # b.s THEN a.s > 0
  ELSE LET e == IF a.e <= b.e THEN a.e ELSE b.e
           less(A, C) == IF a.s > 0 THEN BigLt(C, A) ELSE BigLt(A, C)
       IN  less(ShiftLeft(a.m, a.e - e), ShiftLeft(b.m, b.e - e))

\* the whitespace float() strips from both ends of a str: the ASCII one (9 to
\* 13, 32) and, of the others, those from 128 on
FloatSpace == WhiteSpace \ {"", "", "", ""}

FloatStrip(s) ==
  IF \A k \in 1..Len(s) : s[k] \in FloatSpace THEN << >>
  ELSE SubSeq(s, CHOOSE k \in 1..Len(s) :
                   s[k] \notin FloatSpace /\ \A j \in 1..(k-1) : s[j] \in FloatSpace,
                 CHOOSE k \in 1..Len(s) :
                   s[k] \notin FloatSpace /\ \A j \in (k+1)..Len(s) : s[j] \in FloatSpace)

\* an underscore is allowed between two digits only
UnderscoresOk(s) ==
  \A k \in 1..Len(s) :
    s[k] = "_" => k > 1 /\ k < Len(s) /\ s[k - 1] \in Digits /\ s[k + 1] \in Digits

NotUnderscore(c) == c # "_"

\* s is word, whatever the case of its letters (WORD is word in capitals)
EqIgnoreCase(s, word, WORD) ==
  Len(s) = Len(word) /\ \A k \in 1..Len(s) : s[k] = word[k] \/ s[k] = WORD[k]

AllDigits(s) == \A k \in 1..Len(s) : s[k] \in Digits

Signed(s) == s # << >> /\ s[1] \in {"+", "-"}

\* s without the zeros it starts with
StripZeros(s) ==
  IF \A k \in 1..Len(s) : s[k] = "0" THEN << >>
  ELSE SubSeq(s, CHOOSE k \in 1..Len(s) : s[k] # "0" /\ \A j \in 1..(k-1) : s[j] = "0", Len(s))

\* s without the zeros it ends with
StripZerosEnd(s) ==
  IF \A k \in 1..Len(s) : s[k] = "0" THEN << >>
  ELSE SubSeq(s, 1, CHOOSE k \in 1..Len(s) : s[k] # "0" /\ \A j \in (k+1)..Len(s) : s[j] = "0")

\* the limits of the decimal reader of float(): a mantissa of more digits, not
\* counting the zeros it starts with, or of more digits after the point, is a
\* ValueError
MaxDigits == 1000000000

\* and an exponent of more than 9 digits, not counting the zeros it starts
\* with, is read as this one
MaxAbsExp == 1100000000

\* [sign] (digits [. [digits]] | . digits) [(e | E) [sign] digits], a digit at least
\* in the mantissa: the digits of the mantissa, how many follow the point, and
\* the exponent
DecimalLiteral(s) ==
  LET marks == {k \in 1..Len(s) : s[k] \in {"e", "E"}}
      cut == IF marks = {} THEN Len(s) + 1 ELSE CHOOSE k \in marks : \A j \in marks : k <= j
      mant == SubSeq(s, 1, cut - 1)
      expo == SubSeq(s, cut + 1, Len(s))
      exdigits == IF Signed(expo) THEN Tail(expo) ELSE expo
      whole == PartHead(mant, ".")
      frac == PartTail(mant, ".")
      ok == /\ AllDigits(whole) /\ AllDigits(frac) /\ whole \o frac # << >>
            /\ marks # {} => exdigits # << >> /\ AllDigits(exdigits)
  IN  [ok |-> ok, digits |-> whole \o frac, frac |-> Len(frac),
       exsign |-> IF ok /\ marks # {} /\ expo[1] = "-" THEN 0 - 1 ELSE 1,
       exdigits |-> IF ok THEN StripZeros(exdigits) ELSE << >>]

\* the natural a sequence of decimal digits writes
RECURSIVE BigOfDigits(_)
BigOfDigits(ds) ==
  IF Len(ds) <= 4 THEN BigOfInt(DecimalVal(ds))
  ELSE LET h == Len(ds) \div 2
       IN  BigAdd(BigMul(BigOfDigits(SubSeq(ds, 1, Len(ds) - h)), ShiftLeft(Pow5(h), h)),
                  BigOfDigits(SubSeq(ds, Len(ds) - h + 1, Len(ds))))

\* the double nearest to sign * M / 10^k, for M # 0 and k > 0: with 5^k and M
\* scaled by powers of 2 for the quotient to have 57 or 58 binary digits, that
\* quotient and one digit more for a remainder
DoubleOfQuotient(sign, M, k) ==
  LET sticky(qr) == BigAdd(ShiftLeft(Trim(qr.q), 1), IF qr.r = << >> THEN << >> ELSE <<1>>)
      scaled(F, T) ==
        RoundToDouble(sign,
                      sticky(DivLimb(ShiftLeft(M, T + 57 - BitLen(M)),
                                     ShiftLeft(F, T - BitLen(F)), 3)),
                      BitLen(M) - BitLen(F) - 57 - k - 1)
      by(F) == scaled(F, LimbBits * ((MaxInt(BitLen(F), BitLen(M) - 57) + LimbBits - 1)
                                       \div LimbBits))
  IN  by(Pow5(k))

\* the double nearest to sign * digits * 10^x, x the exponent exsign * exdigits
\* (MaxAbsExp for one of more than 9 digits) less frac: 0 below 10^-324 and an
\* infinity from 10^309 on; the zeros the digits end with go to the exponent
DoubleOfDecimal(sign, digits, frac, exsign, exdigits) ==
  LET abs_exp == IF Len(exdigits) > 9 THEN MaxAbsExp ELSE DecimalVal(exdigits)
      times(M, x) == IF x >= 0 THEN RoundToDouble(sign, BigMul(M, Pow5(x)), x)
                     ELSE DoubleOfQuotient(sign, M, 0 - x)
      of(sig, n, x) ==
        IF sig = << >> THEN Zero(sign)
        ELSE IF n - 1 + x >= 309 THEN Inf(sign)
        ELSE IF n + x <= 0 - 324 THEN Zero(sign)
        ELSE times(BigOfDigits(sig), x + (n - Len(sig)))
      stripped(sig) == of(StripZerosEnd(sig), Len(sig), exsign * abs_exp - frac)
  IN  stripped(StripZeros(digits))

\* float(s): the value, or ok = FALSE for the ValueError
FloatOf(s) ==
  LET t == FloatStrip(s)
      u == SelectSeq(t, NotUnderscore)
      sign == IF Signed(u) /\ u[1] = "-" THEN 0 - 1 ELSE 1
      body == IF Signed(u) THEN Tail(u) ELSE u
      finite(lit) ==
        IF ~lit.ok \/ Len(StripZeros(lit.digits)) > MaxDigits \/ lit.frac > MaxDigits
        THEN [ok |-> FALSE, val |-> Num(0)]
        ELSE [ok |-> TRUE,
              val |-> DoubleOfDecimal(sign, lit.digits, lit.frac, lit.exsign, lit.exdigits)]
  IN  IF ~UnderscoresOk(t) THEN [ok |-> FALSE, val |-> Num(0)]
      ELSE IF \/ EqIgnoreCase(body, <<"i","n","f">>, <<"I","N","F">>)
              \/ EqIgnoreCase(body, <<"i","n","f","i","n","i","t","y">>,
                                    <<"I","N","F","I","N","I","T","Y">>)
           THEN [ok |-> TRUE, val |-> Inf(sign)]
      ELSE IF EqIgnoreCase(body, <<"n","a","n">>, <<"N","A","N">>)
           THEN [ok |-> TRUE, val |-> NaN]
      ELSE finite(DecimalLiteral(body))

get_requested_cpu(env_args) == FloatOf(DictGet(env_args, KeyCpus, DefaultCpus))

(***************************************************************************)
(* Topology: cpuinfo is the list of the last digits of the "physical id"   *)
(* lines of /proc/cpuinfo, in file order; an unreadable file is no lines.  *)
(***************************************************************************)
RECURSIVE CoresFrom(_, _, _)
CoresFrom(ids, cpuid, core) ==
  IF ids = << >> THEN << >>
  ELSE (IF Head(ids) = cpuid THEN <<core>> ELSE << >>) \o CoresFrom(Tail(ids), cpuid, core + 1)

get_core_list(ids, cpuid) == CoresFrom(ids, cpuid, 0)

(***************************************************************************)
(* The ledger: a sequence of bins, a bin a dict from pid to weight: the     *)
(* sequence of its <<pid, weight>> items, in the order the keys came in    *)
(***************************************************************************)
EmptyBin == << >>

\* bin.keys()
BinKeys(bin) == {bin[k][1] : k \in 1..Len(bin)}

\* bin[key], for a key of bin
BinGet(bin, key) == bin[CHOOSE k \in 1..Len(bin) : bin[k][1] = key][2]

prune_dead_pids(bins) == bins

get_existing_bins ==
  IF TRUE
  THEN prune_dead_pids(<< << <<101, Num(6)>>, <<102, Num(2)>> >>, EmptyBin >>)
  ELSE << >>

\* sum(bin.values()) over the first n items: from 0, one value after the other
RECURSIVE SumOver(_, _)
SumOver(bin, n) ==
  IF n = 0 THEN Num(0) ELSE FloatAdd(SumOver(bin, n - 1), bin[n][2])

BinSum(bin) == SumOver(bin, Len(bin))

\* bin[incoming_key] = incoming_weight: a key of the bin keeps its place, a new
\* one comes last
BinPut(bin, key, weight) ==
  IF key \in BinKeys(bin)
  THEN [k \in 1..Len(bin) |-> IF bin[k][1] = key THEN <<key, weight>> ELSE bin[k]]
  ELSE Append(bin, <<key, weight>>)

\* Fits with the comparison of line 134 off by one (>= for >)
Fits_Strict(bin, weight, max_bin_capacity) ==
  ~(\/ FloatGt(FloatAdd(BinSum(bin), weight), Num(max_bin_capacity))
    \/ FloatEq(FloatAdd(BinSum(bin), weight), Num(max_bin_capacity)))

\* the test of line 134, negated: the bin takes the weight
Fits(bin, weight, max_bin_capacity) ==
  ~FloatGt(FloatAdd(BinSum(bin), weight), Num(max_bin_capacity))

\* the first bin the loop of binpack stops at (1-based), 0 when it runs off the end
FirstFit(bins, weight, max_bin_capacity) ==
  LET first(fit) == IF fit = {} THEN 0 ELSE CHOOSE k \in fit : \A j \in fit : k <= j
  IN  first({k \in 1..Len(bins) : Fits(bins[k], weight, max_bin_capacity)})

\* binpack: the bins it returns, or the exception that leaves it.  Past the loop,
\* max_bins.append on an int raises AttributeError, and the argument of the
\* ValueError, incoming_key[incoming_weight] on an int, raises TypeError first.
binpack(bins, value, max_bin_capacity, max_bins) ==
  LET incoming_key == value[1]
      incoming_weight == value[2]
      put(k) ==
        IF k # 0
        THEN [err |-> "none",
              bins |-> [bins EXCEPT ![k] = BinPut(@, incoming_key, incoming_weight)]]
        ELSE IF Len(bins) < max_bins
        THEN [err |-> "AttributeError", bins |-> bins]
        ELSE [err |-> "TypeError", bins |-> bins]
  IN  put(FirstFit(bins, incoming_weight, max_bin_capacity))

\* bin.get(pid, False) is truthy
Truthy(bin, pid) == pid \in BinKeys(bin) /\ ~IsZero(BinGet(bin, pid))

\* the loop of lines 173-179: the index of the first bin holding a truthy weight
\* under pid, None when there is none
ZoneOf(new_bins, pid) ==
  IF \E k \in 1..Len(new_bins) : Truthy(new_bins[k], pid)
  THEN (CHOOSE k \in 1..Len(new_bins) :
          /\ Truthy(new_bins[k], pid)
          /\ \A j \in 1..(k-1) : ~Truthy(new_bins[j], pid)) - 1
  ELSE NoneZone

\* get_numa_args, after pick_best_numa_zone returned numa_zone
NumaArgs(numa_zone, ids) ==
  IF numa_zone = NoneZone THEN << >>
  ELSE CpusetCpusEq \o JoinCores(get_core_list(ids, numa_zone))
         \o CpusetMemsEq \o StrOf(numa_zone)

\* pin_to_numa of main: line 201 overwrites what line 200 read from env_args
pin_to_numa(env_args) == TRUE

(***************************************************************************)
(* State                                                                   *)
(*   host:   cpuinfo, numaEnabled, fqdn, live (the pids of running         *)
(*           processes)                                                    *)
(*   one invocation of main per element of DOMAIN pc:                      *)
(*     pc     "start", "loaded" (inside pick_best_numa_zone, ledger read), *)
(*            "rewrite" (before line 210), "returned" (main returned after *)
(*            print(argv)), "crashed" (an exception left main)             *)
(*     pid    os.getpid()          argv0  the argv main was given          *)
(*     argv   main's argv          cpu    requested_cpu                    *)
(*     bins   existing_bins / new_bins, << >> before the ledger is read    *)
(*     zone   what pick_best_numa_zone returned                            *)
(*     err    the exception that left main                                 *)
(*     seen   history: the invocations that had left pick_best_numa_zone   *)
(*            when this one read the ledger                                *)
(*   binpack applied to a ledger of its own: pbins, pcap, phist            *)
(***************************************************************************)
VARIABLES cpuinfo, numaEnabled, fqdn, live,
          pc, pid, argv0, argv, cpu, bins, zone, err, seen,
          pbins, pcap, phist

hostVars == <<cpuinfo, numaEnabled, fqdn, live>>

procVars == <<pc, pid, argv0, argv, cpu, bins, zone, err, seen>>

packVars == <<pbins, pcap, phist>>

vars == <<hostVars, procVars, packVars>>

(***************************************************************************)
(* Bounds and input pools                                                  *)
(***************************************************************************)
\* invocations of main on one host
NumProcs == 2

\* the CPU quantities an invocation asks for are 0..MaxCpu, the default, a
\* fraction, a negative one or a NaN
MaxCpu == 3

\* binpack on its own ledger: zones, capacity, weight and number of requests
MaxZones == 2

MaxCap == 3

MaxReqs == 4

EFlag == <<"-","e">>

ImgTok == <<"i","m","g">>

HostA == <<"h","o","s","t","A",".","e","x",".","c","o","m">>

HostB == <<"n","_","1">>

TaskVal == <<"m",".","a","p","p",".","t","1">>

CpuKV(k) == KeyCpus \o <<"=">> \o StrOf(k)

TaskKV == KeyTaskUpper \o <<"=">> \o TaskVal

PinKV == KeyPin \o <<"=","1">>

\* n0 cores on physical id 0, then n1 on physical id 1
Topology(n0, n1) == [k \in 1..(n0 + n1) |-> IF k <= n0 THEN 0 ELSE 1]

\* cores per zone of the hosts of Spec: unreadable topology, one core, as many as
\* zone 0 of the ledger of get_existing_bins holds, and more
CoreCounts == {0, 1, 8, 12}

\* argument vectors of Spec: a CPU request, none (the default), an empty one, a
\* fraction, a negative one, a NaN, and one a sum with 8.0 rounds away
PlaceArgvs ==
  {<<RunTok, EFlag, CpuKV(k), ImgTok>> : k \in 0..MaxCpu}
    \cup {<<RunTok, EFlag, TaskKV, ImgTok>>, <<RunTok, EFlag, KeyCpus \o <<"=">>, ImgTok>>,
          <<RunTok, EFlag, PinKV, EFlag, TaskKV, ImgTok>>}
    \cup {<<RunTok, EFlag, KeyCpus \o <<"=">> \o q, ImgTok>> :
             q \in {<<"0",".","5">>, <<"-","1">>, <<"n","a","n">>,
                    <<"0",".","0","0","0","0","0","0","0","0","0","0","0","0","0","0","0","1">>}}

\* a pid of its own, or the pid of an entry of the ledger, reused
PidsOf(i) == {6 + i, 101}

Injective(f) == \A i, j \in DOMAIN f : i # j => f[i] # f[j]

(***************************************************************************)
(* Init                                                                    *)
(***************************************************************************)
HostInit(Counts, Fqdns, Others) ==
  /\ cpuinfo \in {Topology(n, n) : n \in Counts}
  /\ numaEnabled \in BOOLEAN
  /\ fqdn \in Fqdns
  /\ live \in {pids \cup {pid[i] : i \in DOMAIN pid} : pids \in Others}

ProcInit(P, Argvs) ==
  /\ pc = [i \in P |-> "start"]
  /\ pid \in {f \in [P -> UNION {PidsOf(i) : i \in P}] :
                Injective(f) /\ \A i \in P : f[i] \in PidsOf(i)}
  /\ argv0 \in [P -> Argvs]
  /\ argv = argv0
  /\ cpu = [i \in P |-> Num(0)]
  /\ bins = [i \in P |-> << >>]
  /\ zone = [i \in P |-> NoneZone]
  /\ err = [i \in P |-> "none"]
  /\ seen = [i \in P |-> {}]

PackIdle == pbins = << >> /\ pcap = 0 /\ phist = << >>

Init ==
  /\ ProcInit(1..NumProcs, PlaceArgvs)
  /\ HostInit(CoreCounts, {HostA}, {{}, {101, 102}})
  /\ PackIdle

(***************************************************************************)
(* main, in three steps                                                    *)
(***************************************************************************)
Crash(i, e) ==
  /\ pc' = [pc EXCEPT ![i] = "crashed"]
  /\ err' = [err EXCEPT ![i] = e]

\* the invocations whose pick_best_numa_zone has returned
Placed == {j \in DOMAIN pc : pc[j] \in {"rewrite", "returned"} /\ bins[j] # << >>}

\* lines 192-205 and 156-159: parse the environment, read the request, read the ledger
Begin(i) ==
  /\ pc[i] = "start"
  /\ LET env_args == parse_env_args(argv0[i])
         requested == get_requested_cpu(env_args)
     IN  IF pin_to_numa(env_args) /\ numaEnabled
         THEN IF requested.ok
              THEN /\ pc' = [pc EXCEPT ![i] = "loaded"]
                   /\ cpu' = [cpu EXCEPT ![i] = requested.val]
                   /\ bins' = [bins EXCEPT ![i] = get_existing_bins]
                   /\ seen' = [seen EXCEPT ![i] = Placed]
                   /\ UNCHANGED err
              ELSE /\ Crash(i, "ValueError")
                   /\ UNCHANGED <<cpu, bins, seen>>
         ELSE /\ pc' = [pc EXCEPT ![i] = "rewrite"]
              /\ UNCHANGED <<cpu, bins, seen, err>>
  /\ UNCHANGED <<pid, argv0, argv, zone, hostVars, packVars>>

\* lines 161-179, 184-188 and 206: pack, find the zone, add the pinning argument
Pack(i) ==
  /\ pc[i] = "loaded"
  /\ LET cores_per_zone == Len(get_core_list(cpuinfo, 0))
         packed == binpack(bins[i], <<pid[i], cpu[i]>>, cores_per_zone, numa_zones)
         numa_zone == ZoneOf(packed.bins, pid[i])
     IN  IF packed.err = "none"
         THEN /\ pc' = [pc EXCEPT ![i] = "rewrite"]
              /\ bins' = [bins EXCEPT ![i] = packed.bins]
              /\ zone' = [zone EXCEPT ![i] = numa_zone]
              /\ argv' = [argv EXCEPT ![i] = add_argument(@, NumaArgs(numa_zone, cpuinfo))]
              /\ UNCHANGED err
         ELSE /\ Crash(i, packed.err)
              /\ UNCHANGED <<bins, zone, argv>>
  /\ UNCHANGED <<pid, argv0, cpu, seen, hostVars, packVars>>

\* lines 210-214: add the hostname, print the vector, return
Hostname(i) ==
  /\ pc[i] = "rewrite"
  /\ LET mesos_task_id == TaskIdOf(parse_env_args(argv0[i]))
     IN  argv' = [argv EXCEPT ![i] =
                    IF mesos_task_id # << >> /\ ~already_has_hostname(@)
                    THEN add_argument(@, HostnameEq \o generate_hostname(fqdn, mesos_task_id))
                    ELSE @]
  /\ pc' = [pc EXCEPT ![i] = "returned"]
  /\ UNCHANGED <<pid, argv0, cpu, bins, zone, err, seen, hostVars, packVars>>

Next == \E i \in 1..NumProcs : Begin(i) \/ Pack(i) \/ Hostname(i)

Spec == Init /\ [][Next]_vars

(***************************************************************************)
(* SpecSeq: three invocations, one after the other, each asking for one    *)
(* CPU on a host of two zones of one core; every owner stays alive.        *)
(***************************************************************************)
SeqProcs == 3

SeqArgvs ==
  {<<RunTok, EFlag, CpuKV(1), ImgTok>>, <<RunTok, EFlag, CpuKV(1), EFlag, TaskKV, ImgTok>>}

InitSeq ==
  /\ ProcInit(1..SeqProcs, SeqArgvs)
  /\ pid = [i \in 1..SeqProcs |-> 6 + i]
  /\ cpuinfo = Topology(1, 1)
  /\ numaEnabled = TRUE
  /\ fqdn = HostA
  /\ live = {pid[i] : i \in 1..SeqProcs}
  /\ PackIdle

\* an invocation starts when no other is running
BeginSeq(i) ==
  /\ \A j \in DOMAIN pc \ {i} : pc[j] \in {"start", "returned", "crashed"}
  /\ Begin(i)

NextSeq == \E i \in 1..SeqProcs : BeginSeq(i) \/ Pack(i) \/ Hostname(i)

SpecSeq == InitSeq /\ [][NextSeq]_vars

(***************************************************************************)
(* SpecArgs: one invocation, over argument vectors with and without a run  *)
(* token, a task identifier and a hostname flag of each form.              *)
(***************************************************************************)
EnvParts ==
  { << >>,
    <<EFlag, TaskKV>>,
    <<LongEnv \o <<"=">> \o TaskKV>>,
    <<<<"-","d","e">>, KeyTaskLower \o <<"=","j",".","b","_","2">> >>,
    <<EFlag, CpuKV(0), EFlag, TaskKV>>,
    <<EFlag, PinKV, EFlag, TaskKV>> }

HostParts ==
  { << >>,
    <<DashH, <<"w","e","b">> >>,
    <<HostnameEq \o <<"w","e","b">> >>,
    <<LongHostname, <<"w","e","b">> >>,
    <<<<"-","d","h">>, <<"w","e","b">> >>,
    <<<<"-","i","t","h","=","w","e","b">> >>,
    <<<<"-","d","=","h">> >>,
    <<<<"-","-","h">> >> }

DebugFlag == <<"-","D">>

ArgsArgvs ==
  UNION { { pre \o e \o h \o <<ImgTok>>, pre \o h \o e \o <<ImgTok>>, pre \o e \o <<ImgTok>> \o h }
          : pre \in {<< >>, <<RunTok>>}, e \in EnvParts, h \in HostParts }
    \cup { <<DebugFlag, RunTok>> \o e \o <<ImgTok, RunTok>> : e \in EnvParts }

InitArgs ==
  /\ ProcInit({1}, ArgsArgvs)
  /\ HostInit({2, 12}, {HostA, HostB}, {{}})
  /\ PackIdle

NextArgs == Begin(1) \/ Pack(1) \/ Hostname(1)

SpecArgs == InitArgs /\ [][NextArgs]_vars

(***************************************************************************)
(* SpecPack: binpack applied request after request to a ledger of Z empty  *)
(* zones of capacity C.  phist records each request: its weight and the    *)
(* zone whose bin binpack wrote (None when an exception left binpack).     *)
(***************************************************************************)
InitPack ==
  /\ pbins \in {[z \in 1..Z |-> EmptyBin] : Z \in 1..MaxZones}
  /\ pcap \in 0..MaxCap
  /\ phist = << >>
  /\ pc = << >> /\ pid = << >> /\ argv0 = << >> /\ argv = << >> /\ cpu = << >>
  /\ bins = << >> /\ zone = << >> /\ err = << >> /\ seen = << >>
  /\ cpuinfo = << >> /\ numaEnabled = FALSE /\ fqdn = << >> /\ live = {}

\* the weights asked: 0, 2, a half, two that no double holds exactly (0.2 and
\* 0.6) and -1
PackWeights ==
  {Num(0), Num(2), Num(0 - 1)}
    \cup {FloatOf(q).val : q \in {<<"0",".","5">>, <<"0",".","2">>, <<"0",".","6">>}}

\* one request, of a process of its own; its zone is the bin of the bins
\* binpack returned that holds its pid
Place ==
  /\ Len(phist) < MaxReqs
  /\ \E w \in PackWeights :
       LET p == Len(phist) + 1
           written(new_bins) == CHOOSE z \in 1..Len(new_bins) : p \in BinKeys(new_bins[z])
           placed(packed) ==
             /\ pbins' = packed.bins
             /\ phist' = Append(phist,
                  [pid |-> p, w |-> w, err |-> packed.err,
                   zone |-> IF packed.err = "none"
                            THEN written(packed.bins) - 1 ELSE NoneZone])
       IN  placed(binpack(pbins, <<p, w>>, pcap, Len(pbins)))
  /\ UNCHANGED <<pcap, hostVars, procVars>>

NextPack == Place

SpecPack == InitPack /\ [][NextPack]_vars

(***************************************************************************)
(* Vocabulary of the claims                                                *)
(***************************************************************************)
\* a <= b on CPU quantities
FloatLe(a, b) == a.k # "nan" /\ b.k # "nan" /\ ~FloatGt(a, b)

\* coreCapacity of zone z (1-based index of the ledger): its number of cores
CoreCapacity(z) == Len(get_core_list(cpuinfo, z - 1))

\* invocation i has read the ledger
Loaded(i) == bins[i] # << >>

\* the placement step of invocation i is over (it returned or raised)
Decided(i) == Loaded(i) /\ pc[i] \in {"rewrite", "returned", "crashed"}

\* the zones (1-based) of ledger L with committed + w <= coreCapacity
FitZones(L, w) ==
  {z \in 1..Len(L) : FloatLe(FloatAdd(BinSum(L[z]), w), Num(CoreCapacity(z)))}

MinOf(S) == CHOOSE m \in S : \A x \in S : m <= x

\* the zone (1-based) whose bin binpack wrote for invocation i
OwnZone(i) == FirstFit(get_existing_bins, cpu[i], Len(get_core_list(cpuinfo, 0)))

\* the CPU the invocations of S committed to zone z
RECURSIVE CommittedBy(_, _)
CommittedBy(S, z) ==
  IF S = {} THEN Num(0)
  ELSE LET k == CHOOSE x \in S : TRUE
       IN  FloatAdd(IF OwnZone(k) = z THEN cpu[k] ELSE Num(0), CommittedBy(S \ {k}, z))

EmptyLedger == [z \in 1..numa_zones |-> EmptyBin]

(***************************************************************************)
(* C1                                                                      *)
(***************************************************************************)
\* C1: two invocations never are between reading the ledger and leaving the
\* placement step at the same time; once both have placed, no zone holds
\* commitments of the two beyond its capacity, and the ledger the next
\* invocation reads holds the commitment of each.
C1_Serialized ==
  \A i, j \in DOMAIN pc :
    i # j =>
      /\ ~(pc[i] = "loaded" /\ pc[j] = "loaded")
      /\ (i \in Placed /\ j \in Placed) =>
           /\ \A z \in 1..numa_zones :
                FloatLe(CommittedBy({i, j}, z), Num(CoreCapacity(z)))
           /\ \A k \in {i, j} :
                /\ pid[k] \in BinKeys(get_existing_bins[OwnZone(k)])
                /\ BinGet(get_existing_bins[OwnZone(k)], pid[k]) = cpu[k]

(***************************************************************************)
(* C2                                                                      *)
(***************************************************************************)
\* C2: in every ledger an invocation holds (as read, and after placing), the
\* committed CPU of each zone is at most the number of cores of that zone.
C2_WithinCapacity ==
  \A i \in DOMAIN pc :
    Loaded(i) =>
      \A z \in 1..Len(bins[i]) : FloatLe(BinSum(bins[i][z]), Num(CoreCapacity(z)))

(***************************************************************************)
(* C3                                                                      *)
(***************************************************************************)
\* C3: when some zone of the ledger read has room for the request, the placement
\* step returns the lowest such zone, that zone gains exactly the entry
\* pid -> requested CPU, and every other zone is as it was read.
C3_FirstFit ==
  \A i \in DOMAIN pc :
    LET L == get_existing_bins
        fit == FitZones(L, cpu[i])
    IN  (Decided(i) /\ fit # {}) =>
          LET m == MinOf(fit)
          IN  /\ pc[i] # "crashed"
              /\ zone[i] = m - 1
              /\ pid[i] \notin BinKeys(L[m])
              /\ bins[i][m] = BinPut(L[m], pid[i], cpu[i])
              /\ \A z \in 1..Len(L) : z # m => bins[i][z] = L[z]

(***************************************************************************)
(* C4                                                                      *)
(***************************************************************************)
\* C4: when no zone of the ledger read has room for the request, no exception
\* leaves the placement step, it reports None, the ledger is as it was read
\* (same zones, no entry added), and the invocation goes on to the hostname step.
C4_ExhaustedIsNotFatal ==
  \A i \in DOMAIN pc :
    (Decided(i) /\ FitZones(get_existing_bins, cpu[i]) = {}) =>
      /\ pc[i] \in {"rewrite", "returned"}
      /\ err[i] = "none"
      /\ zone[i] = NoneZone
      /\ bins[i] = get_existing_bins

(***************************************************************************)
(* C5                                                                      *)
(***************************************************************************)
RECURSIVE SumW(_)
SumW(h) == IF h = << >> THEN Num(0) ELSE FloatAdd(Head(h).w, SumW(Tail(h)))

\* the largest request of h, 0 when h is empty
MaxW(h) ==
  IF h = << >> THEN Num(0)
  ELSE LET k == CHOOSE k \in 1..Len(h) : \A j \in 1..Len(h) : FloatLe(h[j].w, h[k].w)
       IN  h[k].w

\* n times a
RECURSIVE Times(_, _)
Times(n, a) == IF n = 0 THEN Num(0) ELSE FloatAdd(a, Times(n - 1, a))

NonNegative(h) == \A k \in 1..Len(h) : FloatLe(Num(0), h[k].w)

AllPlaced(h, Z) == \A k \in 1..Len(h) : h[k].err = "none" /\ h[k].zone \in 0..(Z - 1)

\* C5 as claimed: requests whose sum is at most Z*C, none above C, applied to Z
\* empty zones of capacity C, all succeed with a zone in 0..Z-1.
C5_SumWithinTotal ==
  ( /\ NonNegative(phist)
    /\ FloatLe(SumW(phist), Num(Len(pbins) * pcap))
    /\ FloatLe(MaxW(phist), Num(pcap)) )
    => AllPlaced(phist, Len(pbins))

\* whole numbers of half CPUs: the sums of such that the code forms are exact
HalfCpus(h) == \A k \in 1..Len(h) : h[k].w.k = "fin" /\ h[k].w.e >= 0 - 1

\* sum <= Z*(C - m) + m, m the largest request, written sum + (Z-1)*m <= Z*C
WithinFirstFitBound(h, Z, C) ==
  FloatLe(FloatAdd(SumW(h), Times(Z - 1, MaxW(h))), Num(Z * C))

\* C5 amended: requests, each a whole number of half CPUs and none negative,
\* whose sum is at most Z*(C - m) + m, m the largest of them, applied to Z empty
\* zones of capacity C, all succeed with a zone in 0..Z-1.
C5_SumWithinFirstFitBound ==
  ( /\ NonNegative(phist) /\ HalfCpus(phist)
    /\ WithinFirstFitBound(phist, Len(pbins), pcap) )
    => AllPlaced(phist, Len(pbins))

\* three requests of positive weight, one of them a fraction, placed under the
\* bound, the last in zone 1
C5_Witness ==
  /\ Len(phist) = 3
  /\ \A k \in 1..3 : FloatGt(phist[k].w, Num(0))
  /\ \E k \in 1..3 : phist[k].w.e < 0
  /\ HalfCpus(phist)
  /\ WithinFirstFitBound(phist, Len(pbins), pcap)
  /\ phist[3].zone = 1
  /\ AllPlaced(phist, Len(pbins))

(***************************************************************************)
(* C6                                                                      *)
(***************************************************************************)
\* C6: the ledger an invocation places into, and the one it leaves, hold no
\* entry whose owner is not a running process.
C6_NoDeadOwner ==
  \A i \in DOMAIN pc :
    Loaded(i) => \A z \in 1..Len(bins[i]) : BinKeys(bins[i][z]) \subseteq live

(***************************************************************************)
(* C7                                                                      *)
(***************************************************************************)
\* C7: an invocation reads the commitment of every invocation that placed
\* before it; on two zones of one core, with one CPU asked each time, the first
\* invocation gets zone 0, the second zone 1, the third None.
C7_StoredAndVisible ==
  \A i \in DOMAIN pc :
    /\ Loaded(i) =>
         \A j \in seen[i] : zone[j] # NoneZone => pid[j] \in BinKeys(bins[i][zone[j] + 1])
    /\ Decided(i) =>
         /\ pc[i] # "crashed"
         /\ Cardinality(seen[i]) = 0 => zone[i] = 0
         /\ Cardinality(seen[i]) = 1 => zone[i] = 1
         /\ Cardinality(seen[i]) = 2 => zone[i] = NoneZone

(***************************************************************************)
(* C8                                                                      *)
(***************************************************************************)
\* C8: the first invocation on the host, before which nothing was stored, reads
\* a ledger of one empty zone per zone id, and its request, when not above the
\* capacity of zone 0, is placed in zone 0.
C8_FirstLoadIsEmpty ==
  \A i \in DOMAIN pc :
    (Loaded(i) /\ seen[i] = {}) =>
      /\ pc[i] = "loaded" => bins[i] = EmptyLedger
      /\ (Decided(i) /\ FloatLe(cpu[i], Num(CoreCapacity(1)))) => zone[i] = 0

(***************************************************************************)
(* C9                                                                      *)
(***************************************************************************)
\* C9: an invocation that is over either replaced its process image by the
\* runtime ("exec") or exited with a non-zero status (an uncaught exception);
\* it never returned from main without the exec.
C9_ExecOrFail ==
  \A i \in DOMAIN pc :
    pc[i] \notin {"start", "loaded", "rewrite"} => pc[i] \in {"exec", "crashed"}

(***************************************************************************)
(* C10                                                                     *)
(***************************************************************************)
\* an explicit hostname flag, in the words of the claim
ExplicitHostnameFlag(t) ==
  \/ StartsWith(t, <<"-","-","h","o","s","t","n","a","m","e">>)
  \/ t = <<"-","h">>
  \/ /\ Len(t) >= 2 /\ t[1] = "-" /\ t[2] # "-"
     /\ \E k \in 1..Len(t) : t[k] = "h" /\ \A j \in 1..k : t[j] # "="

HasExplicitHostname(v) == \E k \in 1..Len(v) : ExplicitHostnameFlag(v[k])

\* the hostname tokens of a vector, in order
HostnameTokens(v) == SelectSeq(v, ExplicitHostnameFlag)

\* C10: a vector that holds an explicit hostname flag keeps, at every step of
\* the rewriting, exactly the hostname tokens it came with: none is added,
\* none is changed.
C10_HostnameKept ==
  \A i \in DOMAIN pc :
    HasExplicitHostname(argv0[i]) => HostnameTokens(argv[i]) = HostnameTokens(argv0[i])

\* a vector with run, a task identifier and a short-option cluster holding h
\* went through main, pinning argument inserted
C10_Witness ==
  \E i \in DOMAIN pc :
    /\ pc[i] = "returned"
    /\ HasExplicitHostname(argv0[i])
    /\ ~already_has_hostname_NoCluster(argv0[i])
    /\ TaskIdOf(parse_env_args(argv0[i])) # << >>
    /\ Contains(argv0[i], RunTok)
    /\ zone[i] # NoneZone
    /\ argv[i] # argv0[i]

(***************************************************************************)
(* C11                                                                     *)
(***************************************************************************)
\* the index of the first run token of v, 0 when it holds none
FirstRun(v) ==
  IF \E k \in 1..Len(v) : v[k] = <<"r","u","n">>
  THEN MinOf({k \in 1..Len(v) : v[k] = <<"r","u","n">>})
  ELSE 0

\* w is v with one token starting with --hostname= put right after position k
InsertedAfter(v, w, k) ==
  /\ Len(w) = Len(v) + 1
  /\ StartsWith(w[k + 1], <<"-","-","h","o","s","t","n","a","m","e","=">>)
  /\ \A j \in 1..k : w[j] = v[j]
  /\ \A j \in (k + 1)..Len(v) : w[j + 1] = v[j]

\* C11: for a vector without hostname flag and with a non-empty task identifier,
\* the hostname step puts exactly one token --hostname=<value> right after the
\* first run token and keeps every other token in place; without a run token
\* it leaves the vector as it is.
C11_HostnameAfterRun ==
  [][\A i \in DOMAIN pc :
       ( /\ pc[i] = "rewrite" /\ pc'[i] = "returned"
         /\ ~HasExplicitHostname(argv0[i])
         /\ TaskIdOf(parse_env_args(argv0[i])) # << >> )
       => IF FirstRun(argv[i]) # 0
          THEN InsertedAfter(argv[i], argv'[i], FirstRun(argv[i]))
          ELSE argv'[i] = argv[i]]_vars

\* the hostname step acted on a vector whose first run token is its second
\* token and which holds a second run token
C11_Witness ==
  \E i \in DOMAIN pc :
    /\ pc[i] = "returned"
    /\ ~HasExplicitHostname(argv0[i])
    /\ TaskIdOf(parse_env_args(argv0[i])) # << >>
    /\ FirstRun(argv0[i]) = 2
    /\ argv0[i][Len(argv0[i])] = RunTok
    /\ StartsWith(argv[i][3], HostnameEq)

(***************************************************************************)
(* C12                                                                     *)
(***************************************************************************)
\* PIN_TO_NUMA_NODE is set, and not empty, in the environment of the vector
PinRequested(v) == DictGet(parse_env_args(v), KeyPin, << >>) # << >>

\* the hostname step adds a token to invocation i's vector
HostnameDue(i) ==
  /\ TaskIdOf(parse_env_args(argv0[i])) # << >>
  /\ ~HasExplicitHostname(argv0[i])
  /\ FirstRun(argv0[i]) # 0

\* C12: when pinning is requested and zone z came back, the vector main ends
\* with holds, after run and after the --hostname token when one was added, the
\* two arguments --cpuset-cpus=<cores of z, comma-joined> and --cpuset-mems=z,
\* and z is the zone whose bin received the entry.
C12_TwoPinningFlags ==
  \A i \in DOMAIN pc :
    ( /\ pc[i] = "returned" /\ Loaded(i)
      /\ PinRequested(argv0[i])
      /\ zone[i] # NoneZone
      /\ FirstRun(argv0[i]) # 0 )
    => LET k == FirstRun(argv0[i]) + (IF HostnameDue(i) THEN 1 ELSE 0)
       IN  /\ Len(argv[i]) = Len(argv0[i]) + 2 + (IF HostnameDue(i) THEN 1 ELSE 0)
           /\ HostnameDue(i) => StartsWith(argv[i][k], <<"-","-","h","o","s","t","n","a","m","e","=">>)
           /\ argv[i][k + 1] = <<"-","-","c","p","u","s","e","t","-","c","p","u","s","=">>
                                  \o JoinCores(get_core_list(cpuinfo, zone[i]))
           /\ argv[i][k + 2] = <<"-","-","c","p","u","s","e","t","-","m","e","m","s","=">>
                                  \o StrOf(zone[i])
           /\ zone[i] = OwnZone(i) - 1

(***************************************************************************)
(* C13                                                                     *)
(***************************************************************************)
\* C13: an invocation that got no zone (or ran on a host that is not NUMA
\* enabled) ends with the vector it was given, but for the one --hostname token
\* after run when a task identifier was supplied and no hostname flag present.
C13_UnpinnedVectorUntouched ==
  \A i \in DOMAIN pc :
    (pc[i] = "returned" /\ zone[i] = NoneZone) =>
      IF HostnameDue(i)
      THEN InsertedAfter(argv0[i], argv[i], FirstRun(argv0[i]))
      ELSE argv[i] = argv0[i]

(***************************************************************************)
(* C14                                                                     *)
(***************************************************************************)
\* C14: an invocation whose PIN_TO_NUMA_NODE is absent or empty never reads the
\* ledger nor packs, and no token of its vector is a pinning argument.
C14_NoPlacementUnlessRequested ==
  \A i \in DOMAIN pc :
    ~PinRequested(argv0[i]) =>
      /\ ~Loaded(i)
      /\ \A k \in 1..Len(argv[i]) :
           ~StartsWith(argv[i][k], <<"-","-","c","p","u","s","e","t">>)

(***************************************************************************)
(* SpecHost: main on one invocation whose task identifier and host name    *)
(* range over names with dots, runs of characters outside the hostname     *)
(* class, and lengths on both sides of MAX_HOSTNAME_LENGTH                 *)
(***************************************************************************)
PadLen == 62

Pad(n) == [k \in 1..n |-> "x"]

HostFqdns ==
  { HostA, HostB,
    <<"h","o","s","t","A",".","e","x","a","m","p","l","e",".","c","o","m">>,
    <<"n","_","_","1",".","c">>,
    <<"h",".">>,
    <<".","h">>,
    <<"H","9","-","z">>,
    Pad(PadLen),
    <<"n","_","_">> \o Pad(PadLen + 8) \o <<".","c">> }

HostTasks ==
  { TaskVal,
    <<"m","a","r","a","t","h","o","n",".","m","y","a","p","p",".","a","b","c","1","2","3">>,
    <<"a",".","b","_","_","c",".",".","d">>,
    <<"a",".">>,
    <<"x">>,
    <<"a","-","-","_","-","b">>,
    <<"t",".","k","_">>,
    <<"j"," ","b",".","c","/","/",":","e">>,
    <<"a","=","b",".","c","=","d">>,
    <<"t",".","é","1","µ","ß","z">>,
    Pad(PadLen + 8) }

HostArgvs == {<<RunTok, EFlag, KeyTaskUpper \o <<"=">> \o t, ImgTok>> : t \in HostTasks}

InitHost ==
  /\ ProcInit({1}, HostArgvs)
  /\ HostInit({12}, HostFqdns, {{}})
  /\ PackIdle

NextHost == Begin(1) \/ Pack(1) \/ Hostname(1)

SpecHost == InitHost /\ [][NextHost]_vars

(***************************************************************************)
(* C15                                                                     *)
(***************************************************************************)
Dots(s) == {k \in 1..Len(s) : s[k] = "."}

MaxOf(S) == CHOOSE m \in S : \A x \in S : x <= m

\* the text before the first dot, all of it when there is no dot
FirstLabelOf(s) == IF Dots(s) = {} THEN s ELSE SubSeq(s, 1, MinOf(Dots(s)) - 1)

\* the text after the last dot, all of it when there is no dot
LastDotSegmentOf(s) == IF Dots(s) = {} THEN s ELSE SubSeq(s, MaxOf(Dots(s)) + 1, Len(s))

HostAlphabet ==
  {"a","b","c","d","e","f","g","h","i","j","k","l","m","n","o","p","q","r","s","t","u","v","w","x","y","z",
   "A","B","C","D","E","F","G","H","I","J","K","L","M","N","O","P","Q","R","S","T","U","V","W","X","Y","Z",
   "0","1","2","3","4","5","6","7","8","9","-"}

\* the positions of s that survive: every character of the alphabet, and the
\* first character of every run of others
Survivors(s) ==
  SelectSeq([k \in 1..Len(s) |-> k],
            LAMBDA k : s[k] \in HostAlphabet \/ k = 1 \/ s[k - 1] \in HostAlphabet)

\* each run of characters outside [A-Za-z0-9-] becomes one '-', then 63 at most
Sanitize(s) ==
  LET keep == Survivors(s)
      n == IF Len(keep) <= 63 THEN Len(keep) ELSE 63
  IN  [j \in 1..n |-> IF s[keep[j]] \in HostAlphabet THEN s[keep[j]] ELSE "-"]

\* firstLabelOf(FQDN) + "-" + lastDotSegmentOf(taskId) of invocation i
RawHostname(i) ==
  FirstLabelOf(fqdn) \o <<"-">> \o LastDotSegmentOf(TaskIdOf(parse_env_args(argv0[i])))

\* the value of the --hostname= token main added for invocation i
HostnameAdded(i) ==
  LET tok == argv[i][FirstRun(argv0[i]) + 1] IN SubSeq(tok, 12, Len(tok))

\* C15: the hostname main generates is sanitize(firstLabelOf(FQDN) + "-" +
\* lastDotSegmentOf(taskId)); it is at most 63 long, made of [A-Za-z0-9-] only,
\* and sanitize leaves it unchanged.
C15_GeneratedHostname ==
  \A i \in DOMAIN pc :
    (pc[i] = "returned" /\ HostnameDue(i)) =>
      /\ StartsWith(argv[i][FirstRun(argv0[i]) + 1],
                    <<"-","-","h","o","s","t","n","a","m","e","=">>)
      /\ HostnameAdded(i) = Sanitize(RawHostname(i))
      /\ Len(HostnameAdded(i)) <= 63
      /\ \A k \in 1..Len(HostnameAdded(i)) : HostnameAdded(i)[k] \in HostAlphabet
      /\ Sanitize(HostnameAdded(i)) = HostnameAdded(i)

\* a hostname cut at 63 characters in which a run of two characters outside the
\* alphabet became one '-'
C15_Witness ==
  \E i \in DOMAIN pc :
    /\ pc[i] = "returned" /\ HostnameDue(i)
    /\ Len(RawHostname(i)) > 63
    /\ \E k \in 1..10 : /\ RawHostname(i)[k] \notin HostAlphabet
                        /\ RawHostname(i)[k + 1] \notin HostAlphabet
    /\ Len(HostnameAdded(i)) = 63
    /\ HostnameAdded(i) # SubSeq(RawHostname(i), 1, 63)

(***************************************************************************)
(* SpecEnv: main on one invocation whose vector is run followed by every   *)
(* sequence, up to MaxEnvLen long, of flags, inline flags, assignments and *)
(* tokens that only look like one of these                                 *)
(***************************************************************************)
MaxEnvLen == 3

EnvToks ==
  { <<"-","d","e">>,
    LongEnv,
    TaskKV,
    KeyTaskUpper \o <<"=">>,
    KeyTaskLower \o <<"=","j",".","b","_","2">>,
    EFlag \o <<"=">> \o CpuKV(1),
    LongEnv \o <<"=">> \o KeyTaskUpper \o <<"=","q",".","r","=","s">>,
    <<"-","x","=">> \o KeyTaskUpper \o <<"=","z">>,
    EFlag \o <<"=">> }

EnvArgvs == {<<RunTok>> \o w : w \in UNION {[1..n -> EnvToks] : n \in 0..MaxEnvLen}}

InitEnv ==
  /\ ProcInit({1}, EnvArgvs)
  /\ HostInit({12}, {HostA}, {{}})
  /\ PackIdle

NextEnv == Begin(1) \/ Pack(1) \/ Hostname(1)

SpecEnv == InitEnv /\ [][NextEnv]_vars

(***************************************************************************)
(* C16                                                                     *)
(***************************************************************************)
\* the state of the scanner after each token: TRUE when the token was a flag
\* without inline value met outside a value position
AwaitsValue(v) ==
  LET f[k \in 0..Len(v)] ==
        IF k = 0 THEN FALSE
        ELSE ~f[k - 1] /\ EnvMatch(v[k]).matched /\ EnvMatch(v[k]).value = << >>
  IN  f

\* the value token k yields: itself in a value position, its inline value when
\* it matches the pattern, nothing otherwise
YieldAt(v, k) ==
  IF AwaitsValue(v)[k - 1] THEN v[k]
  ELSE IF EnvMatch(v[k]).matched THEN EnvMatch(v[k]).value
  ELSE << >>

\* what the tokens of v yield, one after the other
Yields(v) == SubSeq([k \in 1..Len(v) |-> YieldAt(v, k)], 1, Len(v))

Equals(s) == {k \in 1..Len(s) : s[k] = "="}

\* among the yields y, those that record: there is a '=' in them
RecordsOf(y) == {k \in 1..Len(y) : Equals(y[k]) # {}}

\* what yield k records: the key up to the first '=' and the value after it
KeyOf(y, k) == SubSeq(y[k], 1, MinOf(Equals(y[k])) - 1)

ValueOf(y, k) == SubSeq(y[k], MinOf(Equals(y[k])) + 1, Len(y[k]))

Records(v) == RecordsOf(Yields(v))

KeyAt(v, k) == KeyOf(Yields(v), k)

ValueAt(v, k) == ValueOf(Yields(v), k)

\* the map of the claim: for each key, the value of its last record
ScanEnv(v) ==
  LET y == Yields(v)
      recs == RecordsOf(y)
  IN  [K \in {KeyOf(y, k) : k \in recs} |->
         ValueOf(y, MaxOf({k \in recs : KeyOf(y, k) = K}))]

\* the first non-empty of MESOS_TASK_ID and mesos_task_id
FirstTaskId(env) ==
  LET upper == <<"M","E","S","O","S","_","T","A","S","K","_","I","D">>
      lower == <<"m","e","s","o","s","_","t","a","s","k","_","i","d">>
  IN  IF upper \in DOMAIN env /\ env[upper] # << >> THEN env[upper]
      ELSE IF lower \in DOMAIN env /\ env[lower] # << >> THEN env[lower]
      ELSE << >>

\* C16: the map main works with is that of the two-state scanner (inline value,
\* or the next token whatever it looks like; split at the first '='; last record
\* of a key wins; nothing else contributes), the task identifier is the first
\* non-empty of MESOS_TASK_ID and mesos_task_id, and it is what the hostname
\* added is computed from.  The map and the task identifier are compared where
\* main starts, the hostname where main returned.
C16_EnvExtraction ==
  \A i \in DOMAIN pc :
    LET env == ScanEnv(argv0[i])
        task == FirstTaskId(env)
    IN  /\ pc[i] = "start" =>
             /\ parse_env_args(argv0[i]) = env
             /\ TaskIdOf(parse_env_args(argv0[i])) = task
        /\ (pc[i] = "returned" /\ FirstRun(argv0[i]) # 0 /\ ~HasExplicitHostname(argv0[i])) =>
             IF task # << >>
             THEN \E k \in 1..Len(argv[i]) :
                    argv[i][k] = <<"-","-","h","o","s","t","n","a","m","e","=">>
                       \o Sanitize(FirstLabelOf(fqdn) \o <<"-">> \o LastDotSegmentOf(task))
             ELSE \A k \in 1..Len(argv[i]) :
                    ~StartsWith(argv[i][k], <<"-","-","h","o","s","t","n","a","m","e">>)

\* a vector in which MESOS_TASK_ID is recorded twice with different values, the
\* second time by a token in a value position, and an inline flag, a flag in a
\* value position or an assignment outside any position recorded nothing
C16_Witness ==
  \E i \in DOMAIN pc :
    /\ pc[i] = "returned"
    /\ \E j, k \in Records(argv0[i]) :
         /\ j < k
         /\ KeyAt(argv0[i], j) = KeyAt(argv0[i], k)
         /\ KeyAt(argv0[i], k) = <<"M","E","S","O","S","_","T","A","S","K","_","I","D">>
         /\ ValueAt(argv0[i], j) # ValueAt(argv0[i], k)
         /\ AwaitsValue(argv0[i])[k - 1]
         /\ ~AwaitsValue(argv0[i])[j - 1]
    /\ \E k \in 1..Len(argv[i]) :
         StartsWith(argv[i][k], <<"-","-","h","o","s","t","n","a","m","e","=">>)

(***************************************************************************)
(* C17                                                                     *)
(***************************************************************************)
\* the zones (1-based) of the ledger of invocation i that differ from what was read
Written(i) == {z \in 1..Len(bins[i]) : bins[i][z] # get_existing_bins[z]}

\* C17: when pick_best_numa_zone returns, the zone it reports is the one zone
\* binpack wrote this process's entry to, and it reports None only when the
\* ledger is as it was read.
C17_ZoneIsWhereEntryWent ==
  \A i \in DOMAIN pc :
    (Decided(i) /\ pc[i] # "crashed") =>
      /\ \A z \in 1..Len(bins[i]) : zone[i] = z - 1 <=> z \in Written(i)
      /\ zone[i] = NoneZone => Written(i) = {}
      /\ zone[i] # NoneZone => BinGet(bins[i][zone[i] + 1], pid[i]) = cpu[i]

(***************************************************************************)
(* C18                                                                     *)
(***************************************************************************)
\* C18: in every ledger an invocation holds, as read and after placing, no
\* owner process id has an entry in two zones.
C18_OneZonePerOwner ==
  \A i \in DOMAIN pc :
    Loaded(i) =>
      \A y, z \in 1..Len(bins[i]) :
        y # z => BinKeys(bins[i][y]) \cap BinKeys(bins[i][z]) = {}

=============================================================================
